---- MODULE Spec2Model ----
(***************************************************************************)
(* Emotion Tracker Wristband dashboard (src/app/page.tsx): the sensor      *)
(* simulator generateSensorData, the classifier classifyEmotion, the       *)
(* session statistics and the tracking controller of the component         *)
(* EmotionTrackerDashboard.                                                *)
(*                                                                         *)
(* Numbers.  Every physical quantity is an integer count of 1/10000 of its *)
(* unit, so 72 BPM is 720000, 6 uS is 60000, 36.8 C is 368000 and 94 % is  *)
(* 940000.  Math.random() is a draw k in 0..999 standing for k/1000, which *)
(* keeps every unrounded value of generateSensorData an integer:           *)
(*   (k/1000 - 0.5) * 8    =  (k - 500) * 80   ten-thousandths             *)
(*   (k/1000 - 0.5) * 2    =  (k - 500) * 20                               *)
(*   (k/1000 - 0.5) * 0.4  =  (k - 500) * 4                                *)
(*   (k/1000) * 6          =  k * 60                                       *)
(* toFixed(1) is rounding to a multiple of 1000, toFixed(2) to a multiple  *)
(* of 100.  Arithmetic is exact (decimal), not IEEE double.                *)
(* batteryLevel is in tenths of a percent; times are in milliseconds.      *)
(***************************************************************************)
EXTENDS Integers, Sequences, FiniteSets, TLC

VARIABLES
    mounted,         \* the mount effects of the component have run
    isTracking,      \* useState(false)                       (line 168)
    sensorData,      \* useState<SensorData[]>([])            (line 169)
    currentReading,  \* useState<SensorData | null>(null)     (line 170)
    batteryLevel,    \* useState(85)                          (line 171)
    timers,          \* the intervals armed by setInterval, each with the
                     \* currentReading its callback closed over
    cleanup,         \* id the pending effect cleanup will clear, 0 if none
    rng,             \* position of Math.random() in its stream
    now,             \* Date.now()
    appended,        \* history: every sample ever put into sensorData
    seed,            \* history: the argument of the last tick's generateSensorData
    lastOp,          \* history: the last operation performed
    everStopped,     \* history: tracking has been stopped at least once
    probe,           \* classifier harness: the argument triple
    verdict,         \* classifier harness: the value returned
    reading          \* simulator harness: the last sample returned

vars == <<mounted, isTracking, sensorData, currentReading, batteryLevel, timers,
          cleanup, rng, now, appended, seed, lastOp, everStopped, probe,
          verdict, reading>>

ctlVars == <<mounted, isTracking, sensorData, currentReading, batteryLevel,
             timers, cleanup, rng, now, appended, seed, lastOp, everStopped>>

\* null / undefined
Null == [null |-> TRUE]

Max2(a, b) == IF a > b THEN a ELSE b
Min2(a, b) == IF a < b THEN a ELSE b
Abs(x) == IF x < 0 THEN -x ELSE x

(***************************************************************************)
(* classifyEmotion (lines 108-135)                                         *)
(***************************************************************************)

\* Key order of the object literal `scores` (lines 123-129); EMOTIONS
\* (lines 69-105) lists the same five keys in the same order.
EmotionKeys == <<"calm", "happy", "stressed", "focused", "neutral">>

ScoresWeakStress(heartRate, eda, temperature) ==
    LET f0 == heartRate - 700000
        f1 == 5 * (eda - 50000)
        f2 == 25 * (temperature - 365000)
    IN  << -5 * f0 - 3 * f1 + 2 * f2,
            3 * f0 - 2 * f1 + 4 * f2,
            8 * f0 + f1 - f2,
            4 * f0 + f1 + f2,
           -10 * (Abs(f0) + Abs(f1) + Abs(f2)) >>
\* The five scores, each multiplied by 5000000 (features by 500000, weights
\* by 10): features[0] = (heartRate-70)/50, features[1] = (eda-5)/10,
\* features[2] = (temperature-36.5)/2.
Scores(heartRate, eda, temperature) ==
    LET f0 == heartRate - 700000
        f1 == 5 * (eda - 50000)
        f2 == 25 * (temperature - 365000)
    IN  << -5 * f0 - 3 * f1 + 2 * f2,
            3 * f0 - 2 * f1 + 4 * f2,
            8 * f0 + 6 * f1 - f2,
            4 * f0 + f1 + f2,
           -10 * (Abs(f0) + Abs(f1) + Abs(f2)) >>

\* Object.entries(scores): <<key, value>> pairs in key order.
ScoreEntries(heartRate, eda, temperature) ==
    [i \in 1..Len(EmotionKeys) |->
        <<EmotionKeys[i], Scores(heartRate, eda, temperature)[i]>>]

PickFirstOnTie(a, b) == IF a[2] >= b[2] THEN a ELSE b
PickSmaller(a, b) == IF a[2] < b[2] THEN a ELSE b
\* The reducer (a, b) => a[1] > b[1] ? a : b of lines 131 and 546.
Pick(a, b) == IF a[2] > b[2] THEN a ELSE b

RECURSIVE ReduceFrom(_, _, _)
ReduceFrom(entries, a, i) ==
    IF i > Len(entries) THEN a
    ELSE ReduceFrom(entries, Pick(a, entries[i]), i + 1)

\* Array.prototype.reduce without an initial value: the first entry is the
\* accumulator; on an empty array it throws a TypeError.
Reduce(entries) ==
    IF Len(entries) = 0 THEN <<"TypeError", 0>>
    ELSE ReduceFrom(entries, entries[1], 2)

\* Number(x.toFixed(d)) for x >= 0, q the size of the last kept digit.
ToFixed(x, q) == ((x + q \div 2) \div q) * q

\* r is the draw of Math.random() at line 132.
classifyEmotion(heartRate, eda, temperature, r) ==
    [emotion    |-> Reduce(ScoreEntries(heartRate, eda, temperature))[1],
     confidence |-> Min2(940000 + r * 60, 1000000)]

(***************************************************************************)
(* generateSensorData (lines 138-165)                                      *)
(***************************************************************************)

baseHeartRate == 720000
baseEDA == 60000
baseTemp == 368000

ClampLowOnly(lo, hi, x) == Max2(lo, x)
\* Math.max(lo, Math.min(hi, x)) of lines 143, 147 and 151.
Clamp(lo, hi, x) == Max2(lo, Min2(hi, x))

OrBaseIgnoresPrev(prevData, field, base) == base
OrBaseNoFallback(prevData, field, base) ==
    IF prevData = Null THEN 0 ELSE prevData[field]
\* prevData?.field || base: the base when prevData is undefined or the
\* field is 0.
OrBase(prevData, field, base) ==
    IF prevData = Null THEN base
    ELSE IF prevData[field] = 0 THEN base ELSE prevData[field]

\* d holds the four draws of Math.random() in call order (lines 144, 148,
\* 152 and, inside classifyEmotion, 132); t is Date.now().  The sample is
\* classified from the unrounded values and stores the rounded ones.
generateSensorData(prevData, d, t) ==
    LET heartRate == Clamp(500000, 1200000,
                        OrBase(prevData, "heartRate", baseHeartRate) + (d.hr - 500) * 80)
        eda == Clamp(20000, 150000,
                        OrBase(prevData, "eda", baseEDA) + (d.eda - 500) * 20)
        temperature == Clamp(355000, 385000,
                        OrBase(prevData, "temperature", baseTemp) + (d.temp - 500) * 4)
        c == classifyEmotion(heartRate, eda, temperature, d.conf)
    IN  [timestamp   |-> t,
         heartRate   |-> ToFixed(heartRate, 1000),
         eda         |-> ToFixed(eda, 100),
         temperature |-> ToFixed(temperature, 1000),
         emotion     |-> c.emotion,
         confidence  |-> ToFixed(c.confidence, 1000)]

(***************************************************************************)
(* Session statistics computed at render (lines 218-221, 546)              *)
(***************************************************************************)

CountIntoNoIncrement(acc, key) ==
    IF \E i \in 1..Len(acc) : acc[i][1] = key THEN acc
    ELSE Append(acc, <<key, 1>>)
\* acc[data.emotion] = (acc[data.emotion] || 0) + 1 on an object whose keys
\* keep insertion order: a sequence of <<key, count>> pairs.
CountInto(acc, key) ==
    IF \E i \in 1..Len(acc) : acc[i][1] = key
    THEN LET k == CHOOSE i \in 1..Len(acc) : acc[i][1] = key
         IN  SubSeq(acc, 1, k - 1) \o << <<key, acc[k][2] + 1>> >>
                 \o SubSeq(acc, k + 1, Len(acc))
    ELSE Append(acc, <<key, 1>>)

\* sensorData.reduce(..., {}) over data[lo..hi], started from acc.  The left
\* to right fold is taken half by half (the first half's result is the
\* second half's start), which keeps the evaluation shallow.
RECURSIVE CountFrom(_, _, _, _)
CountFrom(data, acc, lo, hi) ==
    IF lo > hi THEN acc
    ELSE IF lo = hi THEN CountInto(acc, data[lo].emotion)
    ELSE LET mid == (lo + hi) \div 2
             left == CountFrom(data, acc, lo, mid)
         IN  IF Len(left) > 0 THEN CountFrom(data, left, mid + 1, hi) ELSE left

\* Object.entries(emotionCounts)
emotionCounts(data) == CountFrom(data, <<>>, 1, Len(data))

DominantUnguarded(data) == Reduce(emotionCounts(data))[1]
\* The expression rendered under "Dominant Emotion" (line 546).
DominantEmotion(data) ==
    IF Len(data) > 0 THEN Reduce(emotionCounts(data))[1] ELSE "N/A"

(***************************************************************************)
(* Math.random() and Date.now()                                            *)
(***************************************************************************)

\* Math.random() is a seeded generator: the controller reads its draws from
\* a cyclic stream whose starting position (the seed) is arbitrary.
DrawStream == <<0, 999, 500, 640, 250, 125, 875>>

DrawAt(r, j) == DrawStream[((r - 1 + j) % Len(DrawStream)) + 1]

\* The four draws one call of generateSensorData consumes, in call order.
Draws(r) == [hr |-> DrawAt(r, 0), eda |-> DrawAt(r, 1),
             temp |-> DrawAt(r, 2), conf |-> DrawAt(r, 3)]

Advance(r) == ((r - 1 + 4) % Len(DrawStream)) + 1

(***************************************************************************)
(* EmotionTrackerDashboard: state and effects (lines 167-203)              *)
(***************************************************************************)

\* Number of live ticks explored.
MaxTicks == 53

\* The bootstrap loop of lines 179-183, from iteration i on.
RECURSIVE BootLoop(_, _, _, _, _)
BootLoopStopsEarly(i, lastReading, initialData, r, t) ==
    IF i >= 49
    THEN [initialData |-> initialData, lastReading |-> lastReading, rng |-> r]
    ELSE LET g == generateSensorData(lastReading, Draws(r), t)
             s == [g EXCEPT !.timestamp = t - (50 - i) * 30000]
         IN  BootLoop(i + 1, s, Append(initialData, s), Advance(r), t)
BootLoop(i, lastReading, initialData, r, t) ==
    IF i >= 50
    THEN [initialData |-> initialData, lastReading |-> lastReading, rng |-> r]
    ELSE LET g == generateSensorData(lastReading, Draws(r), t)
             s == [g EXCEPT !.timestamp = t - (50 - i) * 30000]
         IN  BootLoop(i + 1, s, Append(initialData, s), Advance(r), t)

\* clearInterval(id)
ClearInterval(tm, id) == {x \in tm : x.id # id}

\* The id setInterval returns: one no armed interval has.
FreshId(tm) == CHOOSE n \in 1..(Cardinality(tm) + 1) : \A x \in tm : x.id # n

EffectDepsOmitReading(isT, cur, tm, cl) ==
    IF isT /\ cl # 0 THEN [timers |-> tm, cleanup |-> cl]
    ELSE LET cleared == IF cl = 0 THEN tm ELSE ClearInterval(tm, cl)
         IN  IF ~isT THEN [timers |-> cleared, cleanup |-> 0]
             ELSE [timers  |-> cleared \cup {[id |-> FreshId(cleared), prev |-> cur]},
                   cleanup |-> FreshId(cleared)]
EffectNoRearm(isT, cur, tm, cl) ==
    LET cleared == IF cl = 0 THEN tm ELSE ClearInterval(tm, cl)
    IN  IF ~isT \/ cl # 0 THEN [timers |-> cleared, cleanup |-> 0]
        ELSE [timers  |-> cleared \cup {[id |-> FreshId(cleared), prev |-> cur]},
              cleanup |-> FreshId(cleared)]
EffectNoGuard(isT, cur, tm, cl) ==
    LET cleared == IF cl = 0 THEN tm ELSE ClearInterval(tm, cl)
    IN  [timers  |-> cleared \cup {[id |-> FreshId(cleared), prev |-> cur]},
         cleanup |-> FreshId(cleared)]
EffectNoCleanup(isT, cur, tm, cl) ==
    IF ~isT THEN [timers |-> tm, cleanup |-> 0]
    ELSE [timers  |-> tm \cup {[id |-> FreshId(tm), prev |-> cur]},
          cleanup |-> FreshId(tm)]
\* One run of the tracking effect (lines 190-203) after a render in which
\* isTracking or currentReading changed: the cleanup the previous run
\* returned (line 202), then the body (lines 191-200) with the new values.
\* The interval's callback closes over currentReading of that render.
TrackingEffect(isT, cur, tm, cl) ==
    LET cleared == IF cl = 0 THEN tm ELSE ClearInterval(tm, cl)
    IN  IF ~isT THEN [timers |-> cleared, cleanup |-> 0]
        ELSE [timers  |-> cleared \cup {[id |-> FreshId(cleared), prev |-> cur]},
              cleanup |-> FreshId(cleared)]

KeepFirst(prev, n) == SubSeq(prev, 1, Min2(n, Len(prev)))
\* prev.slice(-n): the last n elements, all of them when there are fewer.
SliceLast(prev, n) == SubSeq(prev, Max2(1, Len(prev) - n + 1), Len(prev))

\* The setSensorData updater of line 195.
AppendReading(prev, newReading) == Append(SliceLast(prev, 100), newReading)

HarnessIdle == probe = Null /\ verdict = Null /\ reading = Null

\* The state after construction: the useState initial values, before the
\* mount effects have run.
Init ==
    /\ mounted = FALSE
    /\ isTracking = FALSE
    /\ sensorData = <<>>
    /\ currentReading = Null
    /\ batteryLevel = 850
    /\ timers = {}
    /\ cleanup = 0
    /\ rng \in 1..Len(DrawStream)
    /\ now = 50 * 30000
    /\ appended = <<>>
    /\ seed = Null
    /\ lastOp = "init"
    /\ everStopped = FALSE
    /\ HarnessIdle

\* Mount: the bootstrap effect (lines 175-187), the render its two state
\* updates cause, and the tracking effect run for that render.
Bootstrap ==
    /\ ~mounted
    /\ LET first == generateSensorData(Null, Draws(rng), now)
           b == BootLoop(0, first, <<>>, Advance(rng), now)
           e == TrackingEffect(isTracking, b.lastReading, timers, cleanup)
       IN  /\ sensorData' = b.initialData
           /\ currentReading' = b.lastReading
           /\ appended' = b.initialData
           /\ rng' = b.rng
           /\ timers' = e.timers
           /\ cleanup' = e.cleanup
    /\ mounted' = TRUE
    /\ lastOp' = "bootstrap"
    /\ UNCHANGED <<isTracking, batteryLevel, now, seed, everStopped,
                   probe, verdict, reading>>

ToggleStartOnly ==
    /\ mounted
    /\ isTracking' = TRUE
    /\ LET e == TrackingEffect(TRUE, currentReading, timers, cleanup)
       IN  timers' = e.timers /\ cleanup' = e.cleanup
    /\ lastOp' = "start"
    /\ UNCHANGED <<mounted, sensorData, currentReading, batteryLevel, rng, now,
                   appended, seed, everStopped, probe, verdict, reading>>
ToggleResetsSession ==
    /\ mounted
    /\ isTracking' = ~isTracking
    /\ sensorData' = IF isTracking THEN <<>> ELSE sensorData
    /\ currentReading' = IF isTracking THEN Null ELSE currentReading
    /\ LET e == TrackingEffect(~isTracking, currentReading', timers, cleanup)
       IN  timers' = e.timers /\ cleanup' = e.cleanup
    /\ lastOp' = IF isTracking THEN "stop" ELSE "start"
    /\ everStopped' = (everStopped \/ isTracking)
    /\ UNCHANGED <<mounted, batteryLevel, rng, now, appended, seed, probe,
                   verdict, reading>>
\* The Start/Stop button (line 293): setIsTracking(!isTracking), the render
\* and the tracking effect run for it.
ToggleTracking ==
    /\ mounted
    /\ isTracking' = ~isTracking
    /\ LET e == TrackingEffect(~isTracking, currentReading, timers, cleanup)
       IN  timers' = e.timers /\ cleanup' = e.cleanup
    /\ lastOp' = IF isTracking THEN "stop" ELSE "start"
    /\ everStopped' = (everStopped \/ isTracking)
    /\ UNCHANGED <<mounted, sensorData, currentReading, batteryLevel, rng, now,
                   appended, seed, probe, verdict, reading>>

\* An armed interval fires (lines 193-200) 2000 ms after it was armed, then
\* the render and the tracking effect run for the new currentReading.
Tick ==
    /\ Len(appended) < 50 + MaxTicks
    /\ \E tm \in timers :
        LET newReading == generateSensorData(tm.prev, Draws(rng), now + 2000)
            e == TrackingEffect(isTracking, newReading, timers, cleanup)
        IN  /\ sensorData' = AppendReading(sensorData, newReading)
            /\ currentReading' = newReading
            /\ appended' = Append(appended, newReading)
            /\ seed' = tm.prev
            /\ timers' = e.timers
            /\ cleanup' = e.cleanup
    /\ batteryLevel' = Max2(0, batteryLevel - 1)
    /\ rng' = Advance(rng)
    /\ now' = now + 2000
    /\ lastOp' = "tick"
    /\ UNCHANGED <<mounted, isTracking, everStopped, probe, verdict, reading>>

Next == Bootstrap \/ ToggleTracking \/ Tick

Spec == Init /\ [][Next]_vars

(***************************************************************************)
(* classifyEmotion on its own: the argument triple is drawn from a grid of *)
(* the declared domain, and one call is made.                              *)
(***************************************************************************)

\* An armed interval fires (setInterval, lines 193 and 200: every 2000 ms
\* until it is cleared).  Only Tick advances the clock, so the steps of Next
\* that satisfy TimerFires are exactly the Tick steps, and TimerFires is
\* possible exactly when Tick is.
TimerFires ==
    /\ Len(appended) < 50 + MaxTicks
    /\ timers # {}
    /\ now' = now + 2000

\* The controller with its timer: an interval that stays armed fires.
SpecLive == Init /\ [][Next]_vars /\ WF_now(TimerFires)

ControllerIdle ==
    /\ mounted = FALSE
    /\ isTracking = FALSE
    /\ sensorData = <<>>
    /\ currentReading = Null
    /\ batteryLevel = 850
    /\ timers = {}
    /\ cleanup = 0
    /\ rng = 1
    /\ now = 0
    /\ appended = <<>>
    /\ seed = Null
    /\ lastOp = "init"
    /\ everStopped = FALSE

\* heartRate 50..120 by 5, eda 2..15 by 1, temperature 35.5..38.5 by 0.1,
\* and the baseline triple (72, 6, 36.8).
ProbeSet ==
    [heartRate   : {500000 + 50000 * i : i \in 0..14},
     eda         : {20000 + 10000 * i : i \in 0..13},
     temperature : {355000 + 1000 * i : i \in 0..30}]
    \cup {[heartRate |-> baseHeartRate, eda |-> baseEDA, temperature |-> baseTemp]}

\* Draws of Math.random(): its least value 0 and 0.999, next to its
\* (excluded) upper end 1.
DrawSet == {0, 999}

InitClassify ==
    /\ ControllerIdle
    /\ probe \in ProbeSet
    /\ verdict = Null
    /\ reading = Null

Classify ==
    /\ probe # Null
    /\ verdict = Null
    /\ \E r \in DrawSet :
        verdict' = classifyEmotion(probe.heartRate, probe.eda, probe.temperature, r)
    /\ UNCHANGED <<ctlVars, probe, reading>>

NextClassify == Classify

SpecClassify == InitClassify /\ [][NextClassify]_vars

(***************************************************************************)
(* generateSensorData on its own: a chain of calls, the first without an   *)
(* argument and each later one on the sample the previous call returned,   *)
(* every draw chosen freely.                                               *)
(***************************************************************************)

InitSim ==
    /\ ControllerIdle
    /\ probe = Null
    /\ verdict = Null
    /\ reading = Null

\* The draws of one call.  The temperature draw 0.4 moves the value by
\* -0.04, which toFixed(1) rounds away again.
SimDraws == [hr : DrawSet, eda : DrawSet, temp : DrawSet \cup {400}, conf : DrawSet]

Generate ==
    /\ \E d \in SimDraws : reading' = generateSensorData(reading, d, now)
    /\ UNCHANGED <<ctlVars, probe, verdict>>

NextSim == Generate

SpecSim == InitSim /\ [][NextSim]_vars

(***************************************************************************)
(* generateSensorData() without an argument (line 177): the four draws the *)
(* call will get are chosen first and held in probe, then the call is made.*)
(***************************************************************************)

\* Draws of Math.random(): 0, 0.25, 0.5, 0.75 and 0.999 for the channels.
UnseededDraws ==
    [hr   : DrawSet \cup {250, 500, 750},
     eda  : DrawSet \cup {250, 500, 750},
     temp : DrawSet \cup {250, 500, 750},
     conf : DrawSet]

InitUnseeded ==
    /\ ControllerIdle
    /\ probe \in UnseededDraws
    /\ verdict = Null
    /\ reading = Null

GenerateUnseeded ==
    /\ reading = Null
    /\ reading' = generateSensorData(Null, probe, now)
    /\ UNCHANGED <<ctlVars, probe, verdict>>

NextUnseeded == GenerateUnseeded

SpecUnseeded == InitUnseeded /\ [][NextUnseeded]_vars

(***************************************************************************)
(* Properties                                                              *)
(***************************************************************************)

Labels == {"calm", "happy", "stressed", "focused", "neutral"}

\* The stated priority order of the labels, first to last.
Priority == <<"calm", "happy", "stressed", "focused", "neutral">>

Rank(label) == CHOOSE i \in 1..Len(Priority) : Priority[i] = label

\* The linear score of a label as the contract's table gives it, times
\* 5000000, with hrN = (heartRate-70)/50, edaN = (eda-5)/10 and
\* tempN = (temperature-36.5)/2 each times 500000.
LinearScore(label, p) ==
    LET hrN == p.heartRate - 700000
        edaN == 5 * (p.eda - 50000)
        tempN == 25 * (p.temperature - 365000)
    IN  CASE label = "calm"     -> -5 * hrN - 3 * edaN + 2 * tempN
          [] label = "happy"    ->  3 * hrN - 2 * edaN + 4 * tempN
          [] label = "stressed" ->  8 * hrN + 6 * edaN - 1 * tempN
          [] label = "focused"  ->  4 * hrN + 1 * edaN + 1 * tempN
          [] label = "neutral"  -> -10 * (Abs(hrN) + Abs(edaN) + Abs(tempN))

\* The labels that share the maximum score on triple p.
TopLabels(p) ==
    {l \in Labels : \A m \in Labels : LinearScore(l, p) >= LinearScore(m, p)}

\* C1: in every reachable state the retained history holds at most 100
\* samples.
C1_HistoryAtMost100 == Len(sensorData) <= 100

C3_ChannelsInBounds ==
    reading # Null
        => /\ 500000 <= reading.heartRate /\ reading.heartRate <= 1200000
           /\ 20000 <= reading.eda /\ reading.eda <= 150000
           /\ 355000 <= reading.temperature /\ reading.temperature <= 385000

\* A sample whose walk was cut off at a lower and at an upper bound.
C3_Witness ==
    /\ reading # Null
    /\ reading.heartRate = 500000
    /\ reading.eda = 150000
    /\ reading.temperature = 385000

\* C4: the label classifyEmotion returns for an in-domain triple is one of
\* the five labels and its linear score is at least that of every label.
C4_LabelIsArgMax ==
    verdict # Null
        => /\ verdict.emotion \in Labels
           /\ \A l \in Labels :
                LinearScore(verdict.emotion, probe) >= LinearScore(l, probe)

\* A classified triple whose winner is not the first key and beats the
\* others strictly.
C4_Witness ==
    /\ verdict # Null
    /\ verdict.emotion = "focused"
    /\ TopLabels(probe) = {"focused"}

\* C5: the emotion of every sample is the label classifyEmotion selects for
\* the sample's own stored heartRate, eda and temperature.  Stated for the
\* samples whose stored triple has a single top label, where the selection
\* does not hinge on how a tie is broken.
C5_LabelMatchesStored ==
    (reading # Null /\ Cardinality(TopLabels(reading)) = 1)
        => reading.emotion =
             classifyEmotion(reading.heartRate, reading.eda,
                             reading.temperature, 0).emotion

\* C6: a tick (an append to the history and a new current reading) only
\* happens while tracking is on, so none happens between a stop and the
\* next start.
C6_TickOnlyWhileTracking ==
    [][(mounted /\ (appended' # appended \/ currentReading' # currentReading))
          => (isTracking /\ isTracking')]_vars

\* Tracking was stopped after live ticks and no interval is left armed.
C6_Witness ==
    /\ lastOp = "stop"
    /\ ~isTracking
    /\ timers = {}
    /\ Len(appended) > 50

\* C7: stopping changes neither the history nor the current reading; the
\* interval armed by a start closes over that preserved reading, and every
\* tick generates its sample from the reading current before it.
C7_StopPreservesSession ==
    [][/\ (isTracking /\ ~isTracking')
            => /\ sensorData' = sensorData
               /\ currentReading' = currentReading
               /\ appended' = appended
       /\ (~isTracking /\ isTracking')
            => /\ currentReading' = currentReading
               /\ \A tm \in timers' : tm.prev = currentReading
       /\ (mounted /\ appended' # appended) => seed' = currentReading]_vars

\* A tick after tracking was stopped and started again, seeded from the
\* last sample of the history as it was before the tick.
C7_Witness ==
    /\ everStopped
    /\ isTracking
    /\ lastOp = "tick"
    /\ seed = appended[Len(appended) - 1]

\* C8: at most one interval is armed at any time, and none while Idle.
C8_AtMostOneTimer ==
    /\ Cardinality(timers) <= 1
    /\ ~isTracking => timers = {}

\* The interval re-created after a tick changed the current reading.
C8_Witness ==
    /\ isTracking
    /\ lastOp = "tick"
    /\ Cardinality(timers) = 1
    /\ \A tm \in timers : tm.prev = currentReading

\* C9: the retained history is a contiguous suffix, in append order, of the
\* sequence of all samples ever appended.
C9_HistoryIsSuffix ==
    /\ Len(sensorData) <= Len(appended)
    /\ sensorData = SubSeq(appended, Len(appended) - Len(sensorData) + 1,
                           Len(appended))

\* A tick has evicted the oldest sample.
C9_Witness ==
    /\ lastOp = "tick"
    /\ Len(sensorData) < Len(appended)
    /\ sensorData[1] # appended[1]

\* C10: on an empty history the dominant emotion is the sentinel 'N/A':
\* neither a failure nor one of the five labels.
C10_EmptyHistorySentinel ==
    Len(sensorData) = 0
        => /\ DominantEmotion(sensorData) = "N/A"
           /\ DominantEmotion(sensorData) \notin Labels \cup {"TypeError"}

\* The first render: the history is still empty.
C10_Witness ==
    /\ ~mounted
    /\ Len(sensorData) = 0
    /\ DominantEmotion(sensorData) = "N/A"

\* The number of samples of the history that carry the label.
Occurrences(data, label) ==
    Cardinality({i \in 1..Len(data) : data[i].emotion = label})

RECURSIVE SumCounts(_, _)
SumCounts(entries, i) ==
    IF i > Len(entries) THEN 0 ELSE entries[i][2] + SumCounts(entries, i + 1)

\* C11: the per-label counts of emotionCounts sum to the number of retained
\* samples, and each count is the number of retained samples with that label
\* (a label without an entry has none).
C11_CountsMatchHistory ==
    LET entries == emotionCounts(sensorData)
    IN  /\ SumCounts(entries, 1) = Len(sensorData)
        /\ \A i \in 1..Len(entries) :
              entries[i][2] = Occurrences(sensorData, entries[i][1])
        /\ \A i, j \in 1..Len(entries) : entries[i][1] = entries[j][1] => i = j
        /\ \A l \in Labels :
              (\A i \in 1..Len(entries) : entries[i][1] # l)
                  => Occurrences(sensorData, l) = 0

\* A history past the cap's first eviction that carries three labels.
C11_Witness ==
    /\ Len(appended) > Len(sensorData)
    /\ Len(emotionCounts(sensorData)) >= 3
    /\ SumCounts(emotionCounts(sensorData), 1) = Len(sensorData)

\* C12 (as stated): without a previous sample the simulator returns exactly
\* heartRate 72.0, eda 6.00 and temperature 36.8, whatever the draws.
C12_UnseededIsBaseline ==
    reading # Null
        => /\ reading.heartRate = 720000
           /\ reading.eda = 60000
           /\ reading.temperature = 368000

\* C12 (amended): without a previous sample the simulator perturbs the
\* baseline like any other value: each channel is the baseline plus
\* (draw - 0.5) times 8, 2 or 0.4, rounded to 1, 2 or 1 decimals, hence
\* within [68, 76], [5, 7] and [36.6, 37.0]; it is the baseline itself when
\* every draw is 0.5.
C12_UnseededIsPerturbedBaseline ==
    reading # Null
        => /\ Abs(reading.heartRate - (720000 + (probe.hr - 500) * 80)) <= 500
           /\ Abs(reading.eda - (60000 + (probe.eda - 500) * 20)) <= 50
           /\ Abs(reading.temperature - (368000 + (probe.temp - 500) * 4)) <= 500
           /\ 680000 <= reading.heartRate /\ reading.heartRate <= 760000
           /\ 50000 <= reading.eda /\ reading.eda <= 70000
           /\ 366000 <= reading.temperature /\ reading.temperature <= 370000
           /\ (probe.hr = 500 /\ probe.eda = 500 /\ probe.temp = 500)
                => /\ reading.heartRate = 720000
                   /\ reading.eda = 60000
                   /\ reading.temperature = 368000

\* The unseeded call with the least draw on every channel.
C12_Witness ==
    /\ reading # Null
    /\ probe.hr = 0 /\ probe.eda = 0 /\ probe.temp = 0
    /\ reading.heartRate = 680000
    /\ reading.eda = 50000
    /\ reading.temperature = 366000

\* The triple (72, 6, 36.8).
BaselineTriple == [heartRate |-> 720000, eda |-> 60000, temperature |-> 368000]

\* C13 (as stated): classifyEmotion(72, 6, 36.8) selects calm.
C13_BaselineIsCalm ==
    (verdict # Null /\ probe = BaselineTriple) => verdict.emotion = "calm"

\* C13 (amended): classifyEmotion(72, 6, 36.8) selects stressed; the
\* normalized features there are 0.04, 0.1 and 0.15, not 0, and stressed has
\* the single greatest score.
C13_BaselineIsStressed ==
    (verdict # Null /\ probe = BaselineTriple)
        => /\ verdict.emotion = "stressed"
           /\ TopLabels(probe) = {"stressed"}

\* The baseline triple has been classified.
C13_Witness == verdict # Null /\ probe = BaselineTriple

\* The labels that share the maximum count in the history.
TopCounted(data) ==
    {l \in Labels : /\ Occurrences(data, l) > 0
                    /\ \A m \in Labels : Occurrences(data, l) >= Occurrences(data, m)}

\* The position at which the label first occurs in the history.
FirstIndex(data, label) ==
    CHOOSE i \in 1..Len(data) :
        /\ data[i].emotion = label
        /\ \A j \in 1..(i - 1) : data[j].emotion # label

\* C14 (as stated): when two or more labels share the maximum count, the
\* dominant emotion is the tied label that comes first in the priority order.
C14_DominantTieGoesToFirst ==
    (Len(sensorData) > 0 /\ Cardinality(TopCounted(sensorData)) >= 2)
        => \A l \in TopCounted(sensorData) :
              Rank(DominantEmotion(sensorData)) <= Rank(l)

\* C14 (amended): when two or more labels share the maximum count, the
\* dominant emotion is the tied label whose first occurrence in the retained
\* history is the latest.
C14_DominantTieGoesToLatestFirstSeen ==
    (Len(sensorData) > 0 /\ Cardinality(TopCounted(sensorData)) >= 2)
        => /\ DominantEmotion(sensorData) \in TopCounted(sensorData)
           /\ \A l \in TopCounted(sensorData) :
                 FirstIndex(sensorData, DominantEmotion(sensorData))
                     >= FirstIndex(sensorData, l)

\* A history in which two labels share the maximum count.
C14_Witness ==
    /\ Len(sensorData) > 0
    /\ Cardinality(TopCounted(sensorData)) >= 2
    /\ DominantEmotion(sensorData) \in Labels

GeneratedFrom(s, prev) ==
    \E r \in 1..Len(DrawStream) :
        s = [generateSensorData(prev, Draws(r), now) EXCEPT !.timestamp = s.timestamp]

\* C16: after the mount and before the first press the controller is Idle,
\* the history holds exactly 50 samples, each one generated from the sample
\* before it, the first one generated from the unseeded sample, and the
\* unseeded sample itself (stamped with the mount time) is not in the history.
C16_BootstrapHistory ==
    lastOp = "bootstrap" =>
        /\ ~isTracking
        /\ timers = {}
        /\ Len(sensorData) = 50
        /\ \A i \in 2..Len(sensorData) : GeneratedFrom(sensorData[i], sensorData[i - 1])
        /\ \E r \in 1..Len(DrawStream) :
              LET first == generateSensorData(Null, Draws(r), now)
              IN  /\ GeneratedFrom(sensorData[1], first)
                  /\ \A i \in 1..Len(sensorData) : sensorData[i] # first
        /\ \A i \in 1..Len(sensorData) :
              sensorData[i].timestamp = now - (51 - i) * 30000

\* The mount has run: 50 samples, the newest stamped 30 s before the mount
\* and the walk has moved away from its first sample.
C16_Witness ==
    /\ lastOp = "bootstrap"
    /\ Len(sensorData) = 50
    /\ sensorData[50].timestamp = now - 30000
    /\ sensorData[50].heartRate # sensorData[1].heartRate

\* C17: in every state after the mount the current reading is the last
\* element of the retained history (and the sample appended last); the
\* sample the latest tick was generated from is the one appended just before
\* it; the appended samples carry pairwise different timestamps, so the
\* ticks are seeded from pairwise different samples.
C17_CursorIsLastSample ==
    mounted =>
        /\ currentReading = sensorData[Len(sensorData)]
        /\ currentReading = appended[Len(appended)]
        /\ Len(appended) > 50 => seed = appended[Len(appended) - 1]
        /\ \A i, j \in 1..Len(appended) :
              i < j => appended[i].timestamp < appended[j].timestamp
        /\ \A tm \in timers : tm.prev = currentReading

\* Two ticks in a row: the second was generated from the first one's sample.
C17_Witness ==
    /\ lastOp = "tick"
    /\ Len(appended) >= 52
    /\ seed = appended[Len(appended) - 1]
    /\ seed # appended[50]
    /\ currentReading = sensorData[Len(sensorData)]

\* C18: any two consecutive samples of the retained history differ by at
\* most 4.0 in heartRate, 1.00 in eda and 0.2 in temperature, the pair across
\* the bootstrap-to-live boundary and pairs around a stop/start included.
C18_ConsecutiveStepBounded ==
    \A i \in 2..Len(sensorData) :
        /\ Abs(sensorData[i].heartRate - sensorData[i - 1].heartRate) <= 40000
        /\ Abs(sensorData[i].eda - sensorData[i - 1].eda) <= 10000
        /\ Abs(sensorData[i].temperature - sensorData[i - 1].temperature) <= 2000

\* After a stop and a restart the history holds live samples, and a live
\* sample sits a full 4.0 bpm away from the one before it.
C18_Witness ==
    /\ everStopped
    /\ isTracking
    /\ Len(appended) > 51
    /\ \E i \in 2..Len(sensorData) :
          /\ sensorData[i].timestamp > 50 * 30000
          /\ Abs(sensorData[i].heartRate - sensorData[i - 1].heartRate) = 40000

\* C19: while the controller is Tracking an interval is armed, the
\* clear-and-recreate after every tick included, and, the armed interval
\* firing eventually, from every Tracking state either tracking is stopped
\* or a tick appends a new sample (every append adds one sample, so the
\* parity of the number of appended samples changes exactly at a tick).
C19_TrackingKeepsTicking ==
    /\ [](isTracking => timers # {})
    /\ \A parity \in {0, 1} :
          (isTracking /\ Len(appended) < 50 + MaxTicks /\ Len(appended) % 2 = parity)
              ~> (~isTracking \/ Len(appended) % 2 # parity)

\* Three ticks in one uninterrupted session, an interval armed again after
\* the third.
C19_Witness ==
    /\ isTracking
    /\ ~everStopped
    /\ lastOp = "tick"
    /\ Len(appended) = 53
    /\ timers # {}
    /\ cleanup # 0

\* The steps that advance the clock are the ticks: each appends one sample
\* generated from the previous reading an armed interval closed over.
TimerFiresIsTick ==
    [][now' # now =>
          /\ Len(appended) < 50 + MaxTicks
          /\ \E tm \in timers :
                appended' = Append(appended,
                    generateSensorData(tm.prev, Draws(rng), now + 2000))
          /\ lastOp' = "tick"]_vars

====
